---- MODULE Spec2Model ----
(***************************************************************************)
(* A model of three pieces of the registry:                                *)
(*   - src/util/token.rs     API tokens: generation, hashing, parsing,     *)
(*                           the bytea column codec, the Debug rendering   *)
(*   - src/models/keyword.rs keywords and the crates_keywords junction     *)
(*   - src/uploaders.rs      Uploader::upload and its storage backends     *)
(* Strings are sequences of one-character strings, byte strings are        *)
(* sequences of numbers 0..255.                                            *)
(***************************************************************************)
EXTENDS Integers, Sequences, FiniteSets, TLC

VARIABLES
    issued,       \* tokens handed out: [plaintext, hashed] (hashed as computed at issuance)
    api_tokens,   \* the bytea column of the token table: a set of stored byte strings
    rendered,     \* what Debug printed so far: [sha256, out]
    result,       \* the last token operation and what it returned
    keywords,     \* the keywords table: rows [id, keyword, crates_cnt]
    crates_keywords, \* the junction table: rows [crate_id, keyword_id]
    keywords_id_seq, \* the serial sequence behind keywords.id
    kresult,      \* the last keyword operation, the set of names given, what it returned
    uploader,     \* the configured Uploader
    bucket_objects,  \* S3: objects of the default bucket, path -> content
    index_objects,   \* S3: objects of the index bucket, path -> content
    local_files,     \* Local: files on disk, filename -> content
    uresult       \* the last upload and what it returned

token_vars == <<issued, api_tokens, rendered, result>>
keyword_vars == <<keywords, crates_keywords, keywords_id_seq, kresult>>
upload_vars == <<uploader, bucket_objects, index_objects, local_files, uresult>>
vars == <<issued, api_tokens, rendered, result,
          keywords, crates_keywords, keywords_id_seq, kresult,
          uploader, bucket_objects, index_objects, local_files, uresult>>

(***************************************************************************)
(* Bounds of the model.                                                    *)
(***************************************************************************)
\* how many entropy streams the secure random source can produce here
NumSeeds == 3
\* how many tokens are issued in one behaviour
MaxIssued == 2
\* how many Debug renderings are kept
MaxRendered == 2

(***************************************************************************)
(* Characters, bytes, Option and Result.                                   *)
(***************************************************************************)
CHARS ==
    << "a","b","c","d","e","f","g","h","i","j","k","l","m",
       "n","o","p","q","r","s","t","u","v","w","x","y","z",
       "A","B","C","D","E","F","G","H","I","J","K","L","M",
       "N","O","P","Q","R","S","T","U","V","W","X","Y","Z",
       "0","1","2","3","4","5","6","7","8","9" >>

Range(f) == { f[k] : k \in DOMAIN f }

TOKEN_LENGTH == 32

TOKEN_PREFIX == <<"c", "i", "o">>

None == [some |-> FALSE]
Some(v) == [some |-> TRUE, val |-> v]

\* the characters that are not alphanumeric and occur in the inputs
OtherChars == {"-", "_"}

\* the position of a character in CHARS, 0 for one that is not alphanumeric
CharIndexTable ==
    [c \in Range(CHARS) \cup OtherChars |->
        IF \E i \in 1..Len(CHARS) : CHARS[i] = c
        THEN CHOOSE i \in 1..Len(CHARS) : CHARS[i] = c
        ELSE 0]

CharIndex(c) == CharIndexTable[c]

\* the UTF-8 byte of an ASCII character
ByteOf(c) ==
    LET i == CharIndex(c) IN
    CASE i \in 1..26  -> 96 + i
      [] i \in 27..52 -> 64 + (i - 26)
      [] i \in 53..62 -> 48 + (i - 53)
      [] c = "-"      -> 45
      [] c = "_"      -> 95
      [] OTHER        -> 63

\* str::as_bytes
as_bytes(s) == [k \in 1..Len(s) |-> ByteOf(s[k])]

\* str::starts_with, compared character by character
RECURSIVE starts_with(_, _)
starts_with(s, prefix) ==
    IF prefix = <<>> THEN TRUE
    ELSE IF s = <<>> THEN FALSE
    ELSE Head(s) = Head(prefix) /\ starts_with(Tail(s), Tail(prefix))

(***************************************************************************)
(* Sha256::digest.  The compression function is replaced by a small        *)
(* sponge: every input byte is absorbed into a 16-bit state, then 32       *)
(* output bytes are squeezed out of it.  What is kept: the digest is a     *)
(* deterministic function of the whole byte string, of its length and of   *)
(* the order of its bytes, and it is always 32 bytes wide.  What is lost:  *)
(* collision resistance (the state has 65521 values).                      *)
(***************************************************************************)
SHA256_OUTPUT_BYTES == 32

RECURSIVE Absorb(_, _)
Absorb(h, bytes) ==
    IF bytes = <<>> THEN h
    ELSE Absorb((h * 131 + Head(bytes) + 1) % 65521, Tail(bytes))

RECURSIVE Squeeze(_, _)
Squeeze(h, n) ==
    IF n = 0 THEN <<>>
    ELSE LET h2 == (h * 131 + n) % 65521
         IN  <<h2 % 256>> \o Squeeze(h2, n - 1)

Sha256Digest(bytes) == Squeeze(Absorb(27183, bytes), SHA256_OUTPUT_BYTES)

(***************************************************************************)
(* HashedToken                                                             *)
(***************************************************************************)
HashedToken(bytes) == [sha256 |-> bytes]

\* a slip: the digest is taken over the secret without its prefix
hash_without_prefix(plaintext) ==
    Sha256Digest(as_bytes(SubSeq(plaintext, Len(TOKEN_PREFIX) + 1, Len(plaintext))))

\* HashedToken::hash
hash(plaintext) == Sha256Digest(as_bytes(plaintext))

\* a slip: the prefix is looked for anywhere in the string
parse_prefix_anywhere(plaintext) ==
    IF ~ \E k \in 0..Len(plaintext) :
            starts_with(SubSeq(plaintext, k + 1, Len(plaintext)), TOKEN_PREFIX)
    THEN None
    ELSE Some(HashedToken(hash(plaintext)))

\* a slip: the prefix is cut off before hashing
parse_hash_stripped(plaintext) ==
    IF ~ starts_with(plaintext, TOKEN_PREFIX)
    THEN None
    ELSE Some(HashedToken(hash_without_prefix(plaintext)))

\* HashedToken::parse
parse(plaintext) ==
    IF ~ starts_with(plaintext, TOKEN_PREFIX)
    THEN None
    ELSE Some(HashedToken(hash(plaintext)))

\* a slip: the derived Debug, which prints the field
fmt_derived(self) == <<"HashedToken", self.sha256>>

\* <HashedToken as Debug>::fmt: what is written to the formatter
fmt(self) == <<"HashedToken">>

\* <HashedToken as ToSql<Bytea, Pg>>::to_sql: the bytes written to the column
to_sql(self) == self.sha256

\* <Vec<u8> as FromSql<Bytea, Pg>>: any byte string decodes, as it is
Ok(v) == [ok |-> TRUE, val |-> v]
Err(e) == [ok |-> FALSE, err |-> e]

\* <HashedToken as FromSql<Bytea, Pg>>::from_sql
from_sql(bytes) == Ok(HashedToken(bytes))

(***************************************************************************)
(* NewSecureToken                                                          *)
(***************************************************************************)
\* OsRng.sample_iter(Uniform::from(0..CHARS.len())): the k-th index (k from 0)
\* of the entropy stream `seed`; every value lies in 0..CHARS.len()-1
Sample(seed, k) == (seed * 61 + k * (2 * seed + 7) + (k * k) * seed) % Len(CHARS)

\* a slip: one character short
generate_secure_alphanumeric_string_short(seed, len) ==
    [k \in 1..(len - 1) |-> CHARS[Sample(seed, k - 1) + 1]]

\* generate_secure_alphanumeric_string(len), reading the entropy stream `seed`
generate_secure_alphanumeric_string(seed, len) ==
    [k \in 1..len |-> CHARS[Sample(seed, k - 1) + 1]]

\* NewSecureToken::generate
generate(seed) ==
    [plaintext |-> TOKEN_PREFIX \o generate_secure_alphanumeric_string(seed, TOKEN_LENGTH)]

\* NewSecureToken::plaintext
plaintext_of(self) == self.plaintext

\* a slip: issuance hashes the random part only
hashed_without_prefix(self) == HashedToken(hash_without_prefix(self.plaintext))

\* NewSecureToken::hashed
hashed(self) == HashedToken(hash(self.plaintext))

(***************************************************************************)
(* The token operations.  Store, Verify and Revoke are the callers' side:  *)
(* the digest of a generated token goes through to_sql into the column,    *)
(* a request's string goes through parse and to_sql into an equality       *)
(* lookup, a revocation deletes the row.                                   *)
(***************************************************************************)
Seeds == 1..NumSeeds

\* strings given to parse
SampleInputs ==
    { <<>>,
      <<"c", "i">>,
      <<"c", "i", "o">>,
      <<"c", "i", "o", "-", "_">>,
      <<"C", "i", "o", "a", "b">>,
      <<"n", "o", "k", "i", "n", "d">>,
      <<"x", "c", "i", "o", "a">> }

\* strings a request may carry in its credential field, next to issued tokens
RequestInputs ==
    { <<"c", "i", "o", "x">>,
      <<"w", "r", "o", "n", "g", "-", "p", "r", "e", "f", "i", "x", "-", "a", "b", "c">> }

Plaintexts == { t.plaintext : t \in issued }

\* column values a corrupted or migrated row may hold, next to the stored ones
ColumnValues ==
    api_tokens
      \cup { SubSeq(d, 1, Len(d) - 1) : d \in api_tokens }
      \cup { d \o <<0>> : d \in api_tokens }
      \cup { <<>> }

TokenInit ==
    /\ issued = {}
    /\ api_tokens = {}
    /\ rendered = {}
    /\ result = [op |-> "init"]

\* NewSecureToken::generate, and the digest taken of it at issuance
Generate(seed) ==
    /\ Cardinality(issued) < MaxIssued
    /\ LET t == generate(seed)
           h == hashed(t)
       IN  /\ issued' = issued \cup {[plaintext |-> plaintext_of(t), hashed |-> h]}
           /\ result' = [op |-> "generate", seed |-> seed, out |-> plaintext_of(t)]
    /\ UNCHANGED <<api_tokens, rendered, keyword_vars, upload_vars>>

\* issuance, second half: the digest is written to the column
StoreToken(t) ==
    /\ api_tokens' = api_tokens \cup {to_sql(t.hashed)}
    /\ result' = [op |-> "store", input |-> t.hashed]
    /\ UNCHANGED <<issued, rendered, keyword_vars, upload_vars>>

\* HashedToken::parse on a string
Parse(p) ==
    /\ result' = [op |-> "parse", input |-> p, out |-> parse(p)]
    /\ UNCHANGED <<issued, api_tokens, rendered, keyword_vars, upload_vars>>

\* verification: parse, then the equality lookup of the encoded digest
Verify(p) ==
    /\ LET r == parse(p)
           found == r.some /\ \E row \in api_tokens : row = to_sql(r.val)
       IN  result' = [op |-> "verify", input |-> p, out |-> r, found |-> found]
    /\ UNCHANGED <<issued, api_tokens, rendered, keyword_vars, upload_vars>>

Revoke(d) ==
    /\ d \in api_tokens
    /\ api_tokens' = api_tokens \ {d}
    /\ result' = [op |-> "revoke", input |-> d]
    /\ UNCHANGED <<issued, rendered, keyword_vars, upload_vars>>

Decode(bytes) ==
    /\ result' = [op |-> "from_sql", input |-> bytes, out |-> from_sql(bytes)]
    /\ UNCHANGED <<issued, api_tokens, rendered, keyword_vars, upload_vars>>

DebugFmt(h) ==
    /\ Cardinality(rendered) < MaxRendered
    /\ rendered' = rendered \cup {[sha256 |-> h.sha256, out |-> fmt(h)]}
    /\ result' = [op |-> "fmt", input |-> h, out |-> fmt(h)]
    /\ UNCHANGED <<issued, api_tokens, keyword_vars, upload_vars>>

TokenNext ==
    \/ \E seed \in Seeds : Generate(seed)
    \/ \E t \in issued : StoreToken(t)
    \/ \E p \in SampleInputs \cup Plaintexts : Parse(p)
    \/ \E p \in RequestInputs \cup Plaintexts : Verify(p)
    \/ \E d \in api_tokens : Revoke(d)
    \/ \E bytes \in ColumnValues : Decode(bytes)
    \/ \E d \in api_tokens : from_sql(d).ok /\ DebugFmt(from_sql(d).val)

(***************************************************************************)
(* Keywords: src/models/keyword.rs.  The keywords table has a unique       *)
(* constraint on keyword (compared byte for byte, so "NO" and "no" are two *)
(* rows) and a serial id; crates_keywords has the primary key              *)
(* (crate_id, keyword_id).  A statement that fails changes nothing; what   *)
(* earlier statements of a transaction changed stays until the rollback.   *)
(* The sequence behind keywords.id is never rolled back.                   *)
(***************************************************************************)
\* the largest id the sequence hands out
MaxKeywordId == 3
\* the longest list of names one call is given
MaxNames == 2

\* names a caller passes
KeywordNames == { <<"n", "o">>, <<"R", "s">> }

\* keywords of rows that got into the table without being lowercased
StrayKeywords == { <<"N", "O">> }

CrateIds == {1, 2}

RECURSIVE SeqsUpTo(_, _)
SeqsUpTo(S, n) ==
    IF n = 0 THEN { <<>> }
    ELSE LET shorter == SeqsUpTo(S, n - 1)
         IN  shorter \cup { Append(q, x) : q \in shorter, x \in S }

NameLists == SeqsUpTo(KeywordNames, MaxNames)

\* char::to_lowercase on ASCII
LowerChar(c) ==
    LET i == CharIndex(c) IN IF i \in 27..52 THEN CHARS[i - 26] ELSE c

\* str::to_lowercase
to_lowercase(s) == [k \in 1..Len(s) |-> LowerChar(s[k])]

\* insert_into(keywords::table).values(..).on_conflict_do_nothing(): the rows
\* are taken in order, a row whose keyword is there already is skipped
RECURSIVE insert_on_conflict_do_nothing(_, _, _)
insert_on_conflict_do_nothing(table, seq, values) ==
    IF values = <<>> THEN [keywords |-> table, seq |-> seq]
    ELSE IF \E row \in table : row.keyword = Head(values)
    THEN insert_on_conflict_do_nothing(table, seq, Tail(values))
    ELSE insert_on_conflict_do_nothing(
            table \cup {[id |-> seq, keyword |-> Head(values), crates_cnt |-> 0]},
            seq + 1, Tail(values))

\* a slip: the filter compares lower(keyword), so "NO" matches the name "no"
filter_eq_any_lowered(table, lowercase_names) ==
    { row \in table : to_lowercase(row.keyword) \in Range(lowercase_names) }

\* keywords::table.filter(keywords::keyword.eq_any(&lowercase_names))
filter_eq_any(table, lowercase_names) ==
    { row \in table : row.keyword \in Range(lowercase_names) }

\* Keyword::find_or_create_all on the tables db; `fail` names the statement
\* the database refuses, if any.  Returns the result and the tables after it.
find_or_create_all(db, names, fail) ==
    LET lowercase_names == [k \in 1..Len(names) |-> to_lowercase(names[k])]
        new_keywords == lowercase_names
        ins == insert_on_conflict_do_nothing(db.keywords, db.seq, new_keywords)
        after == [db EXCEPT !.keywords = ins.keywords, !.seq = ins.seq]
    IN  IF fail = "insert_keywords"
        THEN [ok |-> FALSE, rows |-> {}, db |-> db]
        ELSE IF fail = "load_keywords"
        THEN [ok |-> FALSE, rows |-> {}, db |-> after]
        ELSE [ok |-> TRUE, rows |-> filter_eq_any(after.keywords, lowercase_names),
              db |-> after]

\* diesel::delete(CrateKeyword::belonging_to(krate))
delete_belonging_to(table, krate) == { row \in table : row.crate_id # krate }

\* the closure of Keyword::update_crate, statement by statement
update_crate_body(db, krate, names, fail) ==
    LET found == find_or_create_all(db, names, fail)
        db1 == found.db
        db2 == [db1 EXCEPT !.crates_keywords = delete_belonging_to(@, krate)]
        crate_keywords == { [crate_id |-> krate, keyword_id |-> kw.id] : kw \in found.rows }
        db3 == [db2 EXCEPT !.crates_keywords = @ \cup crate_keywords]
    IN  IF ~ found.ok THEN [ok |-> FALSE, db |-> db1]
        ELSE IF fail = "delete" THEN [ok |-> FALSE, db |-> db1]
        ELSE IF fail = "insert_crate_keywords"
                \/ crate_keywords \cap db2.crates_keywords # {}
        THEN [ok |-> FALSE, db |-> db2]
        ELSE [ok |-> TRUE, db |-> db3]

\* a slip: the statements run outside a transaction
transaction_none(before, body, commit_fails) == body

\* conn.transaction(..): commit when the closure returns Ok, roll back otherwise
transaction(before, body, commit_fails) ==
    IF body.ok /\ ~ commit_fails
    THEN body
    ELSE [ok |-> FALSE,
          db |-> [before EXCEPT !.seq = body.db.seq]]

\* Keyword::update_crate
update_crate(db, krate, names, fail) ==
    transaction(db,
                update_crate_body(db, krate, names, IF fail = "commit" THEN "none" ELSE fail),
                fail = "commit")

Database == [keywords |-> keywords, crates_keywords |-> crates_keywords,
             seq |-> keywords_id_seq]

KeywordInit ==
    /\ keywords = {}
    /\ crates_keywords = {}
    /\ keywords_id_seq = 1
    /\ kresult = [op |-> "init"]

\* a row inserted into the table directly, as the test does with "NO"
InsertKeywordRow(kw) ==
    /\ keywords_id_seq <= MaxKeywordId
    /\ IF \E row \in keywords : row.keyword = kw
       THEN /\ kresult' = [op |-> "insert_row", keyword |-> kw, ok |-> FALSE]
            /\ UNCHANGED <<keywords, keywords_id_seq>>
       ELSE /\ keywords' = keywords \cup
                           {[id |-> keywords_id_seq, keyword |-> kw, crates_cnt |-> 0]}
            /\ keywords_id_seq' = keywords_id_seq + 1
            /\ kresult' = [op |-> "insert_row", keyword |-> kw, ok |-> TRUE]
    /\ UNCHANGED <<crates_keywords, token_vars, upload_vars>>

FindOrCreateAll(names, fail) ==
    LET r == find_or_create_all(Database, names, fail) IN
    /\ r.db.seq <= MaxKeywordId + 1
    /\ keywords' = r.db.keywords
    /\ keywords_id_seq' = r.db.seq
    /\ kresult' = [op |-> "find_or_create_all", names |-> Range(names),
                   ok |-> r.ok, rows |-> r.rows]
    /\ UNCHANGED <<crates_keywords, token_vars, upload_vars>>

UpdateCrate(krate, names, fail) ==
    LET r == update_crate(Database, krate, names, fail) IN
    /\ r.db.seq <= MaxKeywordId + 1
    /\ keywords' = r.db.keywords
    /\ crates_keywords' = r.db.crates_keywords
    /\ keywords_id_seq' = r.db.seq
    /\ kresult' = [op |-> "update_crate", krate |-> krate, names |-> Range(names),
                   ok |-> r.ok]
    /\ UNCHANGED <<token_vars, upload_vars>>

KeywordNext ==
    \/ \E kw \in StrayKeywords : InsertKeywordRow(kw)
    \/ \E names \in NameLists, fail \in {"none", "insert_keywords", "load_keywords"} :
          FindOrCreateAll(names, fail)
    \/ \E krate \in CrateIds, names \in NameLists,
          fail \in {"none", "insert_keywords", "load_keywords", "delete",
                    "insert_crate_keywords", "commit"} :
          UpdateCrate(krate, names, fail)

(***************************************************************************)
(* Uploads: src/uploaders.rs.  A path is the sequence of its components,   *)
(* an absolute one starting with "/".  A bucket maps keys to contents, the *)
(* disk maps filenames to contents.                                        *)
(***************************************************************************)
\* a component that is not valid Unicode
NonUtf8 == "<non-utf8>"

Uploaders ==
    { [kind |-> "S3", index_bucket |-> TRUE],
      [kind |-> "S3", index_bucket |-> FALSE],
      [kind |-> "Local", index_bucket |-> FALSE] }

UploadBuckets == {"Default", "Index"}

CurrentDirs == { <<"/", "srv", "app">>, <<"/", "srv", NonUtf8>> }

UploadPaths ==
    { <<"crates", "foo", "foo-1.0.0.crate">>,
      <<"/", "tmp", "foo">> }

Contents == {"tarball", "html"}

\* what a file holds when it was created and the copy into it did not finish
Truncated == ""

is_absolute(path) == path # <<>> /\ path[1] = "/"

\* PathBuf::join: an absolute argument replaces the path
join(base, path) == IF is_absolute(path) THEN path ELSE base \o path

\* Path::parent
parent(path) == SubSeq(path, 1, Len(path) - 1)

\* Path::to_str
to_str(path) == IF \E k \in 1..Len(path) : path[k] = NonUtf8 THEN None ELSE Some(path)

\* Uploader::local_uploads_path
local_uploads_path(cwd, path, upload_bucket) ==
    LET rel == IF upload_bucket = "Index" THEN join(<<"index">>, path) ELSE path
    IN  join(join(cwd, <<"local_uploads">>), rel)

\* fs::create_dir_all: the directory and everything above it
create_dir_all(dirs, dir) == dirs \cup { SubSeq(dir, 1, k) : k \in 1..Len(dir) }

\* f with key k set to v
Put(f, k, v) == [x \in DOMAIN f \cup {k} |-> IF x = k THEN v ELSE f[x]]

\* Uploader::upload; `fail` names the call that returns an error, if any.
\* Returns the result and the buckets and the disk after it.
upload(self, cwd, store, path, content, upload_bucket, fail) ==
    IF self.kind = "S3"
    THEN LET bucket == IF upload_bucket = "Default" THEN Some("bucket")
                       ELSE IF self.index_bucket THEN Some("index_bucket") ELSE None
         IN  IF bucket.some /\ fail = "put"
             THEN [out |-> Err("put"), store |-> store]
             ELSE [out |-> Ok(Some(path)),
                   store |->
                     IF ~ bucket.some THEN store
                     ELSE IF bucket.val = "bucket"
                     THEN [store EXCEPT !.bucket = Put(@, path, content)]
                     ELSE [store EXCEPT !.index_bucket = Put(@, path, content)]]
    ELSE LET filename == local_uploads_path(cwd, path, upload_bucket)
             dir == parent(filename)
             made == [store EXCEPT !.dirs = create_dir_all(@, dir)]
             created == [made EXCEPT !.files = Put(@, filename, Truncated)]
             copied == [made EXCEPT !.files = Put(@, filename, content)]
         IN  CASE fail = "create_dir_all" -> [out |-> Err(fail), store |-> store]
               [] fail = "create"         -> [out |-> Err(fail), store |-> made]
               [] fail = "buffer"         -> [out |-> Err(fail), store |-> created]
               [] fail = "copy"           -> [out |-> Err(fail), store |-> created]
               [] OTHER -> [out |-> Ok(to_str(filename)), store |-> copied]

Store == [bucket |-> bucket_objects, index_bucket |-> index_objects,
          files |-> local_files.files, dirs |-> local_files.dirs]

UploadInit ==
    /\ uploader \in { [u EXCEPT !.cwd = c] :
                        u \in { [kind |-> k.kind, index_bucket |-> k.index_bucket, cwd |-> <<>>]
                                  : k \in Uploaders },
                        c \in CurrentDirs }
    /\ bucket_objects = <<>>
    /\ index_objects = <<>>
    /\ local_files = [files |-> <<>>, dirs |-> {}]
    /\ uresult = [op |-> "init"]

Upload(path, content, upload_bucket, fail) ==
    LET r == upload(uploader, uploader.cwd, Store, path, content, upload_bucket, fail) IN
    /\ bucket_objects' = r.store.bucket
    /\ index_objects' = r.store.index_bucket
    /\ local_files' = [files |-> r.store.files, dirs |-> r.store.dirs]
    /\ uresult' = [op |-> "upload", path |-> path, content |-> content,
                   upload_bucket |-> upload_bucket, out |-> r.out]
    /\ UNCHANGED <<uploader, token_vars, keyword_vars>>

UploadNext ==
    \E path \in UploadPaths, content \in Contents, upload_bucket \in UploadBuckets,
       fail \in {"none", "put", "create_dir_all", "create", "buffer", "copy"} :
        Upload(path, content, upload_bucket, fail)

(***************************************************************************)
(* The specifications: one per subsystem, the other two at rest.           *)
(***************************************************************************)
UploadAtRest ==
    /\ uploader = [kind |-> "S3", index_bucket |-> TRUE, cwd |-> <<"/", "srv", "app">>]
    /\ bucket_objects = <<>>
    /\ index_objects = <<>>
    /\ local_files = [files |-> <<>>, dirs |-> {}]
    /\ uresult = [op |-> "init"]

Init == TokenInit /\ KeywordInit /\ UploadAtRest

Next == TokenNext

Spec == Init /\ [][Next]_vars

KeywordSpec == Init /\ [][KeywordNext]_vars

UploadSpecInit == TokenInit /\ KeywordInit /\ UploadInit

UploadSpec == UploadSpecInit /\ [][UploadNext]_vars

(***************************************************************************)
(* The properties.                                                         *)
(***************************************************************************)
\* p begins with the three characters c, i, o
HasTokenPrefix(p) == Len(p) >= 3 /\ SubSeq(p, 1, 3) = <<"c", "i", "o">>

\* the lowercased forms of a set of names
LoweredNames(names) == { to_lowercase(n) : n \in names }

\* C1: parse returns None for every input that does not start with the prefix
\* "cio" (the empty string, a string shorter than the prefix, a string that
\* holds the prefix at a later position).
C1_PrefixGate ==
    (result.op = "parse" /\ ~ HasTokenPrefix(result.input))
        => ~ result.out.some

C1_Witness ==
    /\ result.op = "parse"
    /\ result.input = <<"n", "o", "k", "i", "n", "d">>
    /\ ~ result.out.some

\* C2: for a generated token t, parse(t.plaintext()) is Some(h), and h's digest
\* is the digest of t.hashed() and the digest transform of t.plaintext().
C2_HashAgreement ==
    \A t \in issued :
        (result.op = "parse" /\ result.input = t.plaintext)
            => /\ result.out.some
               /\ result.out.val.sha256 = t.hashed.sha256
               /\ result.out.val.sha256 = Sha256Digest(as_bytes(t.plaintext))

C2_Witness ==
    \E t \in issued :
        result.op = "parse" /\ result.input = t.plaintext /\ result.out.some

\* C3: after any issuances, revocations and verifications, verifying the
\* plaintext of an issued token whose digest is still in the column yields
\* that stored digest, and the equality lookup succeeds.
C3_StoredTokenIsFound ==
    \A t \in issued :
        (result.op = "verify" /\ result.input = t.plaintext
                /\ t.hashed.sha256 \in api_tokens)
            => /\ result.out.some
               /\ result.out.val.sha256 = t.hashed.sha256
               /\ result.out.val.sha256 \in api_tokens
               /\ result.found

C3_Witness ==
    /\ Cardinality(issued) = 2
    /\ Cardinality(api_tokens) = 1
    /\ result.op = "verify"
    /\ result.found

\* C4: decoding a column value that is not exactly 32 bytes wide fails with
\* an error; it never yields a HashedToken.
C4_DecodeRejectsWrongWidth ==
    (result.op = "from_sql" /\ Len(result.input) # 32) => ~ result.out.ok

\* C5: for every input that starts with the prefix (the prefix alone
\* included), parse returns Some(h), h's digest being the 32-byte digest of
\* the whole input, prefix included.
C5_ParseHashesFullString ==
    (result.op = "parse" /\ HasTokenPrefix(result.input))
        => /\ result.out.some
           /\ result.out.val.sha256 = Sha256Digest(as_bytes(result.input))
           /\ Len(result.out.val.sha256) = 32

C5_Witness ==
    /\ result.op = "parse"
    /\ result.input = <<"c", "i", "o">>
    /\ result.out.some

\* C6: every generated plaintext is the prefix followed by 32 characters,
\* each one of the 62 alphanumeric symbols.
C6_GeneratedShape ==
    /\ Cardinality(Range(CHARS)) = 62
    /\ \A t \in issued :
          /\ Len(t.plaintext) = 3 + 32
          /\ SubSeq(t.plaintext, 1, 3) = <<"c", "i", "o">>
          /\ \A k \in 4..Len(t.plaintext) : t.plaintext[k] \in Range(CHARS)

C6_Witness ==
    \E t \in issued : result.op = "generate" /\ result.out = t.plaintext

\* C7: the Debug rendering of a HashedToken is the one label HashedToken,
\* whatever the digest: any two renderings are equal and none holds bytes.
C7_DebugIsFixedLabel ==
    /\ \A a \in rendered : a.out = <<"HashedToken">>
    /\ \A a, b \in rendered : a.out = b.out

C7_Witness ==
    \E a, b \in rendered : a.sha256 # b.sha256

\* C8: find_or_create_all returns exactly the rows whose keyword equals the
\* lowercased form of one of the names, one row for each distinct lowercased
\* name, and no row that differs from it by case only.
C8_ReturnsLowercasedKeywords ==
    (kresult.op = "find_or_create_all" /\ kresult.ok)
        => LET wanted == LoweredNames(kresult.names) IN
           /\ kresult.rows = { row \in keywords : row.keyword \in wanted }
           /\ \A l \in wanted :
                 Cardinality({ row \in kresult.rows : row.keyword = l }) = 1

C8_Witness ==
    /\ kresult.op = "find_or_create_all"
    /\ kresult.ok
    /\ kresult.names = { <<"n", "o">> }
    /\ \E row \in keywords : row.keyword = <<"N", "O">>
    /\ Cardinality(kresult.rows) = 1

\* C9: whenever upload returns Ok(Some(p)), the content is stored in the
\* backend the uploader and the upload bucket select, under the path p.
C9_ReturnedPathIsUploaded ==
    (uresult.op = "upload" /\ uresult.out.ok /\ uresult.out.val.some)
        => LET p == uresult.out.val.val
               objects == IF uploader.kind = "Local" THEN local_files.files
                          ELSE IF uresult.upload_bucket = "Default" THEN bucket_objects
                          ELSE index_objects
           IN  p \in DOMAIN objects /\ objects[p] = uresult.content

\* C10: update_crate is all or nothing.  When it returns Ok the crate is
\* associated with exactly the keywords named by the lowercased names; when
\* it returns Err both tables are as before; the associations of the other
\* crates never change.
C10_UpdateCrateAllOrNothing ==
    [][ kresult'.op = "update_crate" =>
          LET k == kresult'.krate
              wanted == LoweredNames(kresult'.names)
          IN  /\ kresult'.ok =>
                    /\ \A l \in wanted : \E row \in keywords' : row.keyword = l
                    /\ { r \in crates_keywords' : r.crate_id = k }
                         = { [crate_id |-> k, keyword_id |-> row.id] :
                                row \in { x \in keywords' : x.keyword \in wanted } }
              /\ ~ kresult'.ok =>
                    /\ keywords' = keywords
                    /\ crates_keywords' = crates_keywords
              /\ { r \in crates_keywords' : r.crate_id # k }
                    = { r \in crates_keywords : r.crate_id # k }
      ]_vars

C10_Witness ==
    /\ kresult.op = "update_crate"
    /\ ~ kresult.ok
    /\ kresult.names # {}
    /\ \E r \in crates_keywords : r.crate_id = kresult.krate
    /\ \E r \in crates_keywords : r.crate_id # kresult.krate

====
